---- MODULE Spec2Model ----
(***************************************************************************)
(* Model of the Julienne bucketing structure, src/src/bucket.h.            *)
(*                                                                         *)
(* The structure keeps total_buckets slots: open_buckets = total_buckets-1 *)
(* open slots for the bucket numbers of the current range, and one         *)
(* overflow slot.  Identifiers are 0..N-1, D is the consumer's map from    *)
(* identifier to bucket number, NULL_BKT stands for "in no bucket".        *)
(*                                                                         *)
(* uintE is scaled down: NULL_BKT, the largest uintE, is a small number.   *)
(* size_t is scaled down with it and wraps modulo SizeMod.                 *)
(***************************************************************************)
EXTENDS Integers, Sequences, FiniteSets, TLC

\* ---------------------------------------------------------------- bounds
\* n, the number of identifiers
N == 2
\* total_buckets is drawn from 2..MaxT
MaxT == 3
\* the consumer stops inserting when num_elms would exceed MaxElms
MaxElms == 2
\* the longest batch the consumer hands to update_buckets
MaxBatch == 1
\* nworkers(), the number of workers of the run
num_threads == 2
\* the longest batch whose blocked update is followed worker by worker
MaxParBatch == 4
\* the largest size a slot has before that update
MaxPrior == 1

\* ------------------------------------------------------ program constants
\* std::numeric_limits<uintE>::max(), scaled
NULL_BKT == 3
\* size_t arithmetic wraps modulo SizeMod (scaled with uintE)
SizeMod == 16
\* pbbs::kSequentialForThreshold, scaled
kSequentialForThreshold == 2
\* the divisor of k / 4096, scaled
BlockDiv == 2
\* CACHE_LINE_S, the stride of the per-(slot, block) cursors, scaled
CACHE_LINE_S == 2

Ids == 0 .. (N - 1)
BktVals == 0 .. NULL_BKT
Orders == {"increasing", "decreasing"}

VARIABLES
    order,          \* bucket_order
    total_buckets,  \* size_t total_buckets
    ndebug,         \* TRUE when the build compiles assert() away
    D,              \* the consumer's map d : identifier -> bucket number
    bkts,           \* bkts[s], the logical content of slot s (A[0..size-1])
    cur_bkt,
    cur_range,
    num_elms,
    status,         \* "ok", or "aborted" once assert(m == num_elms) failed
    ret,            \* the operation that produced this state and what it returned
    last_emit,      \* history: the bucket number of the last non-empty bucket
                    \* next_bucket returned, -1 before the first
    par             \* the blocked path of update_buckets while its block
                    \* workers run: the batch, hists, the cells of the slots
                    \* and each worker's position; "idle" otherwise

vars == <<order, total_buckets, ndebug, D, bkts, cur_bkt, cur_range,
          num_elms, status, ret, last_emit, par>>

\* no blocked update is under way
ParIdle == [phase |-> "idle"]

open_buckets == total_buckets - 1

\* size_t wrap-around
SzT(x) == x % SizeMod

\* the mutable fields of the structure, passed through the operators below
Self == [bkts |-> bkts, cur_bkt |-> cur_bkt, cur_range |-> cur_range,
         num_elms |-> num_elms, status |-> status]

\* ------------------------------------------------------------- to_range
\* faulty variant: the upper end of the window is taken as part of it
to_range_closed_window(ord, cr, ob, bkt) ==
    IF ord = "increasing"
    THEN IF bkt < SzT(cr * ob)
         THEN NULL_BKT
         ELSE IF bkt <= SzT((cr + 1) * ob) THEN bkt % ob ELSE ob
    ELSE IF bkt >= SzT(cr * ob)
         THEN NULL_BKT
         ELSE IF bkt + 1 >= SzT(SzT(cr - 1) * ob)
              THEN (ob - (bkt % ob)) - 1
              ELSE ob

to_range_(ord, cr, ob, bkt) ==
    IF ord = "increasing"
    THEN IF bkt < SzT(cr * ob)
         THEN NULL_BKT
         ELSE IF bkt < SzT((cr + 1) * ob) THEN bkt % ob ELSE ob
    ELSE IF bkt >= SzT(cr * ob)
         THEN NULL_BKT
         ELSE IF bkt >= SzT(SzT(cr - 1) * ob)
              THEN (ob - (bkt % ob)) - 1
              ELSE ob

to_range(s, bkt) == to_range_(order, s.cur_range, open_buckets, bkt)

\* ------------------------------------------------------------ get_bucket
\* faulty variant: the clause nb == cur_bkt is left out
get_bucket_no_cur_bkt(s, prev, next) ==
    LET pb == to_range(s, prev)
        nb == to_range(s, next)
    IN  IF (nb # NULL_BKT) /\ ((prev = NULL_BKT) \/ (pb # nb))
        THEN nb
        ELSE NULL_BKT

get_bucket(s, prev, next) ==
    LET pb == to_range(s, prev)
        nb == to_range(s, next)
    IN  IF (nb # NULL_BKT) /\ ((prev = NULL_BKT) \/ (pb # nb) \/ (nb = s.cur_bkt))
        THEN nb
        ELSE NULL_BKT

\* ------------------------------------------------------ get_cur_bucket_num
\* faulty variant: the slots of a window are numbered the wrong way round
get_cur_bucket_num_reversed(s) ==
    IF order = "increasing"
    THEN SzT(s.cur_range * open_buckets + (open_buckets - 1 - s.cur_bkt))
    ELSE SzT(s.cur_range * open_buckets - (open_buckets - 1 - s.cur_bkt) - 1)

get_cur_bucket_num(s) ==
    IF order = "increasing"
    THEN SzT(s.cur_range * open_buckets + s.cur_bkt)
    ELSE SzT(s.cur_range * open_buckets - s.cur_bkt - 1)

curBucketNonEmpty(s) == Len(s.bkts[s.cur_bkt]) > 0

\* ------------------------------------------------------ update_buckets_seq
\* faulty variant: the slot index is stored in place of the identifier
insert_in_bucket_slot(bk, b, val) == [bk EXCEPT ![b] = Append(@, b)]

\* a batch f is a sequence of Maybe<(v, b)>: [exists, v, b]
insert_in_bucket(bk, b, val) == [bk EXCEPT ![b] = Append(@, val)]

\* faulty variant: m.exists is not looked at
TakesEntryUnchecked(m) == m.b # NULL_BKT

\* the test both paths make of an entry m = f(j)
TakesEntry(m) == m.exists /\ m.b # NULL_BKT

RECURSIVE update_buckets_seq_loop(_, _)
update_buckets_seq_loop(s, f) ==
    IF f = <<>>
    THEN s
    ELSE LET m == Head(f)
         IN  update_buckets_seq_loop(
                 IF TakesEntry(m)
                 THEN [s EXCEPT !.bkts = insert_in_bucket(@, m.b, m.v),
                                !.num_elms = @ + 1]
                 ELSE s,
                 Tail(f))

update_buckets_seq(s, f) ==
    LET ne_before == s.num_elms
        s1 == update_buckets_seq_loop(s, f)
    IN  [st |-> s1, ret |-> s1.num_elms - ne_before]

\* -------------------------------------------- update_buckets, blocked path
\* pbbs::log2_up for x >= 1: the least a with 2^a >= x
RECURSIVE log2_up_from(_, _)
log2_up_from(a, x) == IF 2 ^ a >= x THEN a ELSE log2_up_from(a + 1, x)

log2_up(x) == log2_up_from(0, x)

Min(a, b) == IF a < b THEN a ELSE b

\* faulty variant of dyn_arr::insert: the cell is counted from the start of
\* the buffer, not from size
dyn_arr_insert_index_absolute(size, pos) == pos

\* dyn_arr::insert(val, pos): the cell written, counted from the start of A
dyn_arr_insert_index(size, pos) == size + pos

\* the items j (0-based) of block i: s <= j < e
BlockItems(f, i, block_size) ==
    LET k == Len(f)
        lo == i * block_size
        hi == Min(lo + block_size, k)
    IN  {j \in 0 .. (k - 1) : lo <= j /\ j < hi}

\* step 1: hist[j] of block i
BlockHist(f, i, block_size, j) ==
    Cardinality({x \in BlockItems(f, i, block_size) :
                    TakesEntry(f[x + 1]) /\ f[x + 1].b = j})

\* step 2: pbbs::scan_add, the exclusive prefix sum of in_map
RECURSIVE scan_add(_, _)
scan_add(in_map, i) == IF i = 0 THEN 0 ELSE scan_add(in_map, i - 1) + in_map[i - 1]

\* step 5: the scatter of items j, j+1, ... , k-1; blocks are contiguous, so
\* the items of one block are visited in the order its worker visits them.
\* A[b] are the cells of slot b, sizes[b] its size field.
RECURSIVE scatter(_, _, _, _, _, _, _)
scatter(f, j, block_size, num_blocks, sizes, hists, A) ==
    IF j >= Len(f)
    THEN A
    ELSE LET m == f[j + 1]
             i == j \div block_size
             c == (m.b * num_blocks + i) * CACHE_LINE_S
             ind == hists[c]
         IN  IF TakesEntry(m)
             THEN scatter(f, j + 1, block_size, num_blocks, sizes,
                          [hists EXCEPT ![c] = @ + 1],
                          [A EXCEPT ![m.b][dyn_arr_insert_index(sizes[m.b], ind)] = m.v])
             ELSE scatter(f, j + 1, block_size, num_blocks, sizes, hists, A)

update_buckets_par(s, f) ==
    LET k == Len(f)
        ne_before == s.num_elms
        block_bits == log2_up(k \div BlockDiv)
        num_blocks == 2 ^ block_bits
        block_size == (k + num_blocks - 1) \div num_blocks
        T == total_buckets
        HLen == (num_blocks + 1) * T * CACHE_LINE_S
        sizes == [i \in 0 .. (T - 1) |-> Len(s.bkts[i])]
        \* 1. per-block histograms; -1 marks a cell never written
        hists1 == [x \in 0 .. (HLen - 1) |->
                      IF x < num_blocks * T
                      THEN BlockHist(f, x \div T, block_size, x % T)
                      ELSE -1]
        \* 2. slot-major prefix sum
        in_map == [i \in 0 .. (num_blocks * T - 1) |->
                      hists1[(i % num_blocks) * T + (i \div num_blocks)]]
        outs == [i \in 0 .. (num_blocks * T) |-> scan_add(in_map, i)]
        \* 3. resize: room for num_inc more cells, size untouched
        num_inc == [i \in 0 .. (T - 1) |-> outs[(i + 1) * num_blocks] - outs[i * num_blocks]]
        A3 == [i \in 0 .. (T - 1) |->
                  [x \in 0 .. (sizes[i] + num_inc[i] - 1) |->
                      IF x < sizes[i] THEN s.bkts[i][x + 1] ELSE -1]]
        \* 4. per-(slot, block) cursors
        hists4 == [x \in 0 .. (HLen - 1) |->
                      IF x % CACHE_LINE_S = 0 /\ (x \div CACHE_LINE_S) < T * num_blocks
                      THEN outs[x \div CACHE_LINE_S]
                           - outs[((x \div CACHE_LINE_S) \div num_blocks) * num_blocks]
                      ELSE hists1[x]]
        \* 5. scatter
        A5 == scatter(f, 0, block_size, num_blocks, sizes, hists4, A3)
        \* 6. sizes
        bk == [i \in 0 .. (T - 1) |->
                  [x \in 1 .. (sizes[i] + num_inc[i]) |-> A5[i][x - 1]]]
        ne == s.num_elms + scan_add(num_inc, T)
    IN  [st |-> [s EXCEPT !.bkts = bk, !.num_elms = ne], ret |-> ne - ne_before]

update_buckets(s, f) ==
    IF Len(f) < kSequentialForThreshold \/ num_threads = 1
    THEN update_buckets_seq(s, f)
    ELSE update_buckets_par(s, f)

\* ---------------------------------------------------------------- unpack
Some(v, b) == [exists |-> TRUE, v |-> v, b |-> b]

\* assert(m == num_elms): the build with assertions aborts, the NDEBUG build
\* goes on
AssertAborts(m, ne) == m # ne /\ ~ndebug

unpack(s) ==
    LET m == Len(s.bkts[open_buckets])
        tmp == s.bkts[open_buckets]
        cr == IF order = "increasing" THEN SzT(s.cur_range + 1) ELSE SzT(s.cur_range - 1)
        s1 == [s EXCEPT !.cur_range = cr, !.bkts[open_buckets] = <<>>]
        g == [i \in 1 .. m |-> Some(tmp[i], to_range(s1, D[tmp[i]]))]
        s2 == IF m # s.num_elms THEN [s1 EXCEPT !.cur_bkt = 0] ELSE s1
    IN  IF AssertAborts(m, s.num_elms)
        THEN [s2 EXCEPT !.status = "aborted"]
        ELSE LET u == update_buckets(s2, g).st
             IN  [u EXCEPT !.num_elms = @ - m]

\* faulty variant: the cursor wraps round the open slots, unpack is not called
_next_bucket_no_unpack(s) == [s EXCEPT !.cur_bkt = (@ + 1) % open_buckets]

_next_bucket(s) ==
    LET s1 == [s EXCEPT !.cur_bkt = @ + 1]
    IN  IF s1.cur_bkt = open_buckets
        THEN LET u == unpack(s1)
             IN  IF u.status = "aborted" THEN u ELSE [u EXCEPT !.cur_bkt = 0]
        ELSE s1

\* ------------------------------------------- next_bucket, get_cur_bucket
\* faulty variant: nothing is filtered out
KeepsEverything(i, cur_bkt_num) == TRUE

\* the predicate p of get_cur_bucket's filter
KeepsInBucket(i, cur_bkt_num) == D[i] = cur_bkt_num

\* bucket(null_bkt, vertexSubset(n)): the constructor of bucket leaves
\* num_filtered unset, so the record has no such field
NoBucket == [id |-> NULL_BKT, identifiers |-> <<>>]

\* pbbs::filterf(bkt.A, out, size, p)
filterf(bkt, cur_bkt_num) == SelectSeq(bkt, LAMBDA i : KeepsInBucket(i, cur_bkt_num))

\* faulty variant: num_elms is lowered by the filtered count m, not by size
take_cur_bucket_filtered(s) ==
    [s EXCEPT !.num_elms = @ - Len(filterf(s.bkts[s.cur_bkt], get_cur_bucket_num(s))),
              !.bkts[s.cur_bkt] = <<>>]

\* what get_cur_bucket does to the structure: num_elms -= size, size = 0
take_cur_bucket(s) ==
    [s EXCEPT !.num_elms = @ - Len(s.bkts[s.cur_bkt]), !.bkts[s.cur_bkt] = <<>>]

RECURSIVE next_bucket(_)
RECURSIVE get_cur_bucket(_)
get_cur_bucket(s) ==
    LET bkt == s.bkts[s.cur_bkt]
        size == Len(bkt)
        cur_bkt_num == get_cur_bucket_num(s)
        out == filterf(bkt, cur_bkt_num)
        s1 == take_cur_bucket(s)
    IN  IF Len(out) = 0
        THEN next_bucket(s1)
        ELSE [st |-> s1,
              ret |-> [id |-> cur_bkt_num, identifiers |-> out, num_filtered |-> size]]

next_bucket(s) ==
    IF s.status = "aborted"
    THEN [st |-> s, ret |-> NoBucket]
    ELSE IF ~curBucketNonEmpty(s) /\ s.num_elms > 0
         THEN next_bucket(_next_bucket(s))
         ELSE IF s.num_elms = 0
              THEN [st |-> s, ret |-> NoBucket]
              ELSE get_cur_bucket(s)

\* ----------------------------------------------------------- constructor
Max(a, b) == IF a > b THEN a ELSE b

\* pbbs::reduce(imap, min) and pbbs::reduce(imap, max) over imap[0 .. n-1]
RECURSIVE reduce_min(_, _)
reduce_min(imap, n) == IF n = 1 THEN imap[0] ELSE Min(reduce_min(imap, n - 1), imap[n - 1])

RECURSIVE reduce_max(_, _)
reduce_max(imap, n) == IF n = 1 THEN imap[0] ELSE Max(reduce_max(imap, n - 1), imap[n - 1])

\* faulty variant: DECREASING takes max_b / open_buckets
initial_cur_range_floor(ord, ob, d) ==
    IF ord = "increasing"
    THEN reduce_min(d, N) \div ob
    ELSE LET imap == [i \in Ids |-> IF d[i] = NULL_BKT THEN 0 ELSE d[i]]
         IN  reduce_max(imap, N) \div ob

initial_cur_range(ord, ob, d) ==
    IF ord = "increasing"
    THEN reduce_min(d, N) \div ob
    ELSE LET imap == [i \in Ids |-> IF d[i] = NULL_BKT THEN 0 ELSE d[i]]
         IN  SzT(reduce_max(imap, N) + ob) \div ob

\* faulty variant: every entry carries identifier 0
get_id_and_bkt_same_id(s, d, i) ==
    Some(0, IF d[i] # NULL_BKT THEN to_range(s, d[i]) ELSE d[i])

\* faulty variant: to_range is applied to null_bkt too
get_id_and_bkt_unguarded(s, d, i) == Some(i, to_range(s, d[i]))

get_id_and_bkt(s, d, i) ==
    Some(i, IF d[i] # NULL_BKT THEN to_range(s, d[i]) ELSE d[i])

\* the constructor from the point where cur_range has the value cr: the
\* empty slots, then update_buckets(get_id_and_bkt, n)
seed(cr) ==
    LET s0 == [bkts |-> [b \in 0 .. (total_buckets - 1) |-> <<>>],
               cur_bkt |-> 0,
               cur_range |-> cr,
               num_elms |-> 0,
               status |-> "ok"]
        f == [i \in 1 .. N |-> get_id_and_bkt(s0, D, i - 1)]
    IN  update_buckets(s0, f)

\* the structure make_buckets(N, D, order, total_buckets) returns
buckets == seed(initial_cur_range(order, open_buckets, D))

Init ==
    /\ order \in Orders
    /\ total_buckets \in 2 .. MaxT
    /\ ndebug \in BOOLEAN
    /\ D \in [Ids -> BktVals]
    /\ bkts = buckets.st.bkts
    /\ cur_bkt = buckets.st.cur_bkt
    /\ cur_range = buckets.st.cur_range
    /\ num_elms = buckets.st.num_elms
    /\ status = "ok"
    /\ ret = [op |-> "make_buckets"]
    /\ last_emit = -1
    /\ par = ParIdle

\* ---------------------------------------------------------------- actions
SetSelf(s) ==
    /\ bkts' = s.bkts
    /\ cur_bkt' = s.cur_bkt
    /\ cur_range' = s.cur_range
    /\ num_elms' = s.num_elms
    /\ status' = s.status

Range(q) == {q[x] : x \in DOMAIN q}

\* the consumer calls next_bucket()
NextBucket ==
    /\ status = "ok"
    /\ LET r == next_bucket(Self)
       IN  /\ SetSelf(r.st)
           /\ IF r.st.status = "aborted"
              THEN /\ ret' = [op |-> "abort"]
                   /\ UNCHANGED last_emit
              ELSE /\ ret' = [op |-> "next_bucket"] @@ r.ret
                   /\ last_emit' = IF r.ret.identifiers # <<>> THEN r.ret.id ELSE last_emit
    /\ UNCHANGED <<order, total_buckets, ndebug, D, par>>

\* the consumer changes D(i) and does not tell the structure
SetD(i, next) ==
    /\ status = "ok"
    /\ D[i] # next
    /\ D' = [D EXCEPT ![i] = next]
    /\ ret' = [op |-> "set_d"]
    /\ UNCHANGED <<order, total_buckets, ndebug, bkts, cur_bkt, cur_range,
                   num_elms, status, last_emit, par>>

\* what the consumer may put at one index of a batch: nothing (a Maybe that
\* does not exist, its tuple left over), or identifier i moving to bucket next
None == [exists |-> FALSE, v |-> 0, b |-> 0]

Moves == [i : Ids, next : BktVals]

Batches == UNION {[1 .. k -> Moves \cup {None}] : k \in 1 .. MaxBatch}

MovedIds(batch) == {batch[x].i : x \in {y \in DOMAIN batch : batch[y] # None}}

\* no identifier moves twice in one batch
WellFormed(batch) ==
    \A x, y \in DOMAIN batch :
        (x # y /\ batch[x] # None /\ batch[y] # None) => batch[x].i # batch[y].i

\* F(x) of the batch: (i, get_bucket(D(i), next))
BatchF(s, batch) ==
    [x \in DOMAIN batch |->
        IF batch[x] = None
        THEN None
        ELSE Some(batch[x].i, get_bucket(s, D[batch[x].i], batch[x].next))]

\* the consumer moves identifiers to new buckets and calls update_buckets with
\* the slots get_bucket gives
UpdateBuckets(batch) ==
    /\ status = "ok"
    /\ WellFormed(batch)
    /\ LET r == update_buckets(Self, BatchF(Self, batch))
       IN  /\ r.st.num_elms <= MaxElms
           /\ SetSelf(r.st)
           /\ ret' = [op |-> "update_buckets", inserted |-> r.ret]
    /\ D' = [i \in Ids |->
                IF i \in MovedIds(batch)
                THEN (CHOOSE m \in Range(batch) : m # None /\ m.i = i).next
                ELSE D[i]]
    /\ UNCHANGED <<order, total_buckets, ndebug, last_emit, par>>

Next ==
    \/ NextBucket
    \/ \E i \in Ids, next \in BktVals : SetD(i, next)
    \/ \E batch \in Batches : UpdateBuckets(batch)

Spec == Init /\ [][Next]_vars

\* the consumer only moves identifiers to buckets they are not in, and
\* reports every move
Changes(batch) == \A x \in DOMAIN batch : batch[x] # None => batch[x].next # D[batch[x].i]

NextMoves ==
    \/ NextBucket
    \/ \E batch \in Batches : Changes(batch) /\ UpdateBuckets(batch)

SpecMoves == Init /\ [][NextMoves]_vars

\* the consumer only calls next_bucket; the loop of next_bucket is followed
\* one iteration at a time
InLoop == ret.op \in {"calling", "_next_bucket"}

\* next_bucket() is entered
CallNextBucket ==
    /\ status = "ok"
    /\ ~InLoop
    /\ ret' = [op |-> "calling"]
    /\ UNCHANGED <<order, total_buckets, ndebug, D, bkts, cur_bkt, cur_range,
                   num_elms, status, last_emit, par>>

\* while (!curBucketNonEmpty() && num_elms > 0)
LoopCondition == ~curBucketNonEmpty(Self) /\ num_elms > 0

\* one iteration: _next_bucket()
SkipEmpty ==
    /\ status = "ok"
    /\ InLoop
    /\ LoopCondition
    /\ SetSelf(_next_bucket(Self))
    /\ ret' = [op |-> "_next_bucket"]
    /\ UNCHANGED <<order, total_buckets, ndebug, D, last_emit, par>>

\* the loop is left: the terminal bucket or get_cur_bucket()
ReturnBucket ==
    /\ InLoop
    /\ ~LoopCondition
    /\ NextBucket

NextDrain ==
    \/ CallNextBucket
    \/ SkipEmpty
    \/ ReturnBucket

SpecDrain == Init /\ [][NextDrain]_vars

\* every call that is entered runs on
SpecDrainFair == SpecDrain /\ WF_vars(NextDrain)

\* ------------------------------------------------- construction as a step
\* The constructor run on any arguments: an order outside the enum, and
\* total_buckets from 0 on.
OrdersGiven == Orders \cup {"unknown"}

\* the fields before the constructor body has run
Unseeded == [bkts |-> <<>>, cur_bkt |-> 0, cur_range |-> 0, num_elms |-> 0,
             status |-> "constructing"]

NonNullIds == {i \in Ids : D[i] # NULL_BKT}

\* What the constructor leaves behind.
\*  - an order that is neither increasing nor decreasing: the diagnostic and
\*    abort() of the else branch, before anything is seeded;
\*  - total_buckets >= 2: the structure;
\*  - total_buckets = 1: open_buckets is 0 and min_b / open_buckets (or
\*    (max_b + open_buckets) / open_buckets) divides by zero, which is
\*    undefined: the build traps (a signal, no diagnostic), or goes on with
\*    some quotient q;
\*  - total_buckets = 0: new_array gives no slot and open_buckets wraps to the
\*    largest size_t; the batch of n goes through the blocked path, whose
\*    outs[num_blocks * total_buckets] = sum writes outside the empty array,
\*    and every seeded identifier is written outside bkts: undefined, the
\*    build traps or goes on with a structure of no slots, num_elms counting
\*    the identifiers it took itself to insert.
ConstructorOutcomes ==
    IF order \notin Orders
    THEN {[Unseeded EXCEPT !.status = "aborted"]}
    ELSE IF total_buckets >= 2
    THEN {buckets.st}
    ELSE IF total_buckets = 1
    THEN {[Unseeded EXCEPT !.status = "trapped"]}
             \cup {seed(q).st : q \in 0 .. 1}
    ELSE {[Unseeded EXCEPT !.status = "trapped"]}
             \cup {[Unseeded EXCEPT !.status = "ok", !.num_elms = k] :
                       k \in {0, Cardinality(NonNullIds)}}

InitConfig ==
    /\ order \in OrdersGiven
    /\ total_buckets \in 0 .. MaxT
    /\ ndebug \in BOOLEAN
    /\ D \in [Ids -> BktVals]
    /\ bkts = Unseeded.bkts
    /\ cur_bkt = Unseeded.cur_bkt
    /\ cur_range = Unseeded.cur_range
    /\ num_elms = Unseeded.num_elms
    /\ status = Unseeded.status
    /\ ret = [op |-> "none"]
    /\ last_emit = -1
    /\ par = ParIdle

\* make_buckets(N, D, order, total_buckets)
Construct ==
    /\ status = "constructing"
    /\ \E s \in ConstructorOutcomes : SetSelf(s)
    /\ ret' = [op |-> "make_buckets"]
    /\ UNCHANGED <<order, total_buckets, ndebug, D, last_emit, par>>

NextConfig == Construct

SpecConfig == InitConfig /\ [][NextConfig]_vars

\* the consumer calls update_buckets(F, k) with any F: each F(x) carries an
\* identifier and a slot or null_bkt, or does not exist (None)
RawEntries ==
    [exists : {TRUE}, v : Ids, b : (0 .. open_buckets) \cup {NULL_BKT}] \cup {None}

RawBatches == UNION {[1 .. k -> RawEntries] : k \in 1 .. (MaxBatch + 1)}

UpdateBucketsRaw(f) ==
    /\ status = "ok"
    /\ LET r == update_buckets(Self, f)
       IN  /\ r.st.num_elms <= MaxElms
           /\ SetSelf(r.st)
           /\ ret' = [op |-> "update_buckets", inserted |-> r.ret]
    /\ UNCHANGED <<order, total_buckets, ndebug, D, last_emit, par>>

NextRaw == \E f \in RawBatches : UpdateBucketsRaw(f)

\* update_buckets on any batch, from any structure make_buckets returns
SpecRaw == Init /\ [][NextRaw]_vars

\* the identifiers of S in increasing order
RECURSIVE SetToSeq(_)
SetToSeq(S) ==
    IF S = {} THEN <<>>
    ELSE LET m == CHOOSE x \in S : \A y \in S : x <= y
         IN  <<m>> \o SetToSeq(S \ {m})

\* the batch that gives each identifier of S the slot of its bucket D(i), as
\* the constructor does for all identifiers
SameSlotBatch(S) ==
    LET q == SetToSeq(S)
    IN  [x \in DOMAIN q |-> get_id_and_bkt(Self, D, q[x])]

\* the consumer calls update_buckets with such a batch, D unchanged
Reinsert(S) ==
    /\ status = "ok"
    /\ LET r == update_buckets(Self, SameSlotBatch(S))
       IN  /\ r.st.num_elms <= MaxElms
           /\ SetSelf(r.st)
           /\ ret' = [op |-> "reinsert", inserted |-> r.ret]
    /\ UNCHANGED <<order, total_buckets, ndebug, D, last_emit, par>>

NextReinsert ==
    \/ Next
    \/ \E S \in (SUBSET Ids) \ {{}} : Reinsert(S)

SpecReinsert == Init /\ [][NextReinsert]_vars

\* ------------------------------- update_buckets, the block workers' steps
\* Step 5 of the blocked path runs one worker for each block.  par holds what
\* the workers share (hists, the cells A of the slots) and where each worker
\* stands; acc records every access a worker makes to a shared cell.

\* steps 4 and 5: the cell of hists holding the cursor of slot b in block i.
\* cursor_cell_shared is a faulty variant: one cursor for each slot.
cursor_cell_shared(b, i, num_blocks) == (b * num_blocks) * CACHE_LINE_S

cursor_cell(b, i, num_blocks) == (b * num_blocks + i) * CACHE_LINE_S

\* steps 1 to 4 of the blocked path as the block workers of step 5 find them:
\* the sizes, the reserved cells and the cursors
update_buckets_setup(s, f) ==
    LET k == Len(f)
        block_bits == log2_up(k \div BlockDiv)
        num_blocks == 2 ^ block_bits
        block_size == (k + num_blocks - 1) \div num_blocks
        T == total_buckets
        HLen == (num_blocks + 1) * T * CACHE_LINE_S
        sizes == [i \in 0 .. (T - 1) |-> Len(s.bkts[i])]
        \* 1. per-block histograms; -1 marks a cell never written
        hists1 == [x \in 0 .. (HLen - 1) |->
                      IF x < num_blocks * T
                      THEN BlockHist(f, x \div T, block_size, x % T)
                      ELSE -1]
        \* 2. slot-major prefix sum
        in_map == [i \in 0 .. (num_blocks * T - 1) |->
                      hists1[(i % num_blocks) * T + (i \div num_blocks)]]
        outs == [i \in 0 .. (num_blocks * T) |-> scan_add(in_map, i)]
        \* 3. resize: room for num_inc more cells, size untouched
        num_inc == [i \in 0 .. (T - 1) |-> outs[(i + 1) * num_blocks] - outs[i * num_blocks]]
        A3 == [i \in 0 .. (T - 1) |->
                  [x \in 0 .. (sizes[i] + num_inc[i] - 1) |->
                      IF x < sizes[i] THEN s.bkts[i][x + 1] ELSE -1]]
        \* 4. per-(slot, block) cursors; a cell keeps what was written last
        hists4 == [x \in 0 .. (HLen - 1) |->
                      LET W == {n \in 0 .. (T * num_blocks - 1) :
                                   cursor_cell(n \div num_blocks, n % num_blocks, num_blocks) = x}
                      IN  IF W = {}
                          THEN hists1[x]
                          ELSE LET n == CHOOSE n \in W : \A m \in W : m <= n
                               IN  outs[n] - outs[(n \div num_blocks) * num_blocks]]
    IN  [num_blocks |-> num_blocks, block_size |-> block_size, sizes |-> sizes,
         num_inc |-> num_inc, hists |-> hists4, A |-> A3,
         num_elms |-> s.num_elms + scan_add(num_inc, T)]

\* step 6 and the return: the slots with their new sizes
update_buckets_commit(s, su, A) ==
    LET bk == [i \in 0 .. (total_buckets - 1) |->
                  [x \in 1 .. (su.sizes[i] + su.num_inc[i]) |-> A[i][x - 1]]]
    IN  [st |-> [s EXCEPT !.bkts = bk, !.num_elms = su.num_elms],
         ret |-> su.num_elms - s.num_elms]

Slots == 0 .. (total_buckets - 1)

RECURSIVE SumSizes(_, _)
\* the logical sizes of slots 0 .. b of bk, added up
SumSizes(bk, b) == IF b < 0 THEN 0 ELSE Len(bk[b]) + SumSizes(bk, b - 1)

\* slot contents before the update
PriorSlots == [Slots -> {[x \in 1 .. n |-> N - 1] : n \in 0 .. MaxPrior}]

\* index j of a batch holds identifier j % N
ParEntries(j) ==
    {None} \cup {Some(j % N, b) : b \in Slots \cup {NULL_BKT}}

ParBatches ==
    UNION {{f \in [1 .. k -> UNION {ParEntries(j) : j \in 0 .. (k - 1)}] :
               \A x \in 1 .. k : f[x] \in ParEntries(x - 1)} :
           k \in kSequentialForThreshold .. MaxParBatch}

InitPar ==
    /\ order = "increasing"
    /\ total_buckets \in 2 .. MaxT
    /\ ndebug = TRUE
    /\ D = [i \in Ids |-> 0]
    /\ bkts \in PriorSlots
    /\ cur_bkt = 0
    /\ cur_range = 0
    /\ num_elms = SumSizes(bkts, total_buckets - 1)
    /\ status = "ok"
    /\ ret = [op |-> "none"]
    /\ last_emit = -1
    /\ par = ParIdle

\* steps 1 to 4, then the par_for of step 5 starts a worker for each block
BeginScatter(f) ==
    /\ status = "ok"
    /\ par.phase = "idle"
    /\ ~(Len(f) < kSequentialForThreshold \/ num_threads = 1)
    /\ LET su == update_buckets_setup(Self, f)
       IN  /\ num_elms' = su.num_elms
           /\ par' = [phase |-> "scatter", f |-> f, s0 |-> Self, su |-> su,
                      hists |-> su.hists, A |-> su.A,
                      pc |-> [i \in 0 .. (su.num_blocks - 1) |->
                                 [j |-> i * su.block_size, at |-> "read", ind |-> -1]],
                      acc |-> {}]
    /\ UNCHANGED <<order, total_buckets, ndebug, D, bkts, cur_bkt, cur_range,
                   status, ret, last_emit>>

Workers == IF par.phase = "scatter" THEN DOMAIN par.pc ELSE {}

\* e of worker i
WorkerEnd(i) == Min(i * par.su.block_size + par.su.block_size, Len(par.f))

\* m = f(j) of worker i
WorkerItem(i) == par.f[par.pc[i].j + 1]

WorkerCursor(i) == cursor_cell(WorkerItem(i).b, i, par.su.num_blocks)

Access(i, arr, slot, x, kind) ==
    [w |-> i, arr |-> arr, slot |-> slot, x |-> x, kind |-> kind]

ParStep(p) ==
    /\ par' = p
    /\ UNCHANGED <<order, total_buckets, ndebug, D, bkts, cur_bkt, cur_range,
                   num_elms, status, ret, last_emit>>

\* the item does not exist or goes to no bucket: j++
SkipItem(i) ==
    /\ i \in Workers
    /\ par.pc[i].j < WorkerEnd(i)
    /\ par.pc[i].at = "read"
    /\ ~TakesEntry(WorkerItem(i))
    /\ ParStep([par EXCEPT !.pc[i].j = @ + 1])

\* ind = hists[(b * num_blocks + i) * CACHE_LINE_S]
ReadCursor(i) ==
    /\ i \in Workers
    /\ par.pc[i].j < WorkerEnd(i)
    /\ par.pc[i].at = "read"
    /\ TakesEntry(WorkerItem(i))
    /\ ParStep([par EXCEPT !.pc[i].ind = par.hists[WorkerCursor(i)],
                           !.pc[i].at = "insert",
                           !.acc = @ \cup {Access(i, "hists", -1, WorkerCursor(i), "r")}])

\* bkts[b].insert(v, ind)
InsertItem(i) ==
    /\ i \in Workers
    /\ par.pc[i].at = "insert"
    /\ LET m == WorkerItem(i)
           x == dyn_arr_insert_index(par.su.sizes[m.b], par.pc[i].ind)
       IN  ParStep([par EXCEPT !.A[m.b][x] = m.v,
                               !.pc[i].at = "bump",
                               !.acc = @ \cup {Access(i, "A", m.b, x, "w")}])

\* hists[(b * num_blocks + i) * CACHE_LINE_S]++, then j++
BumpCursor(i) ==
    /\ i \in Workers
    /\ par.pc[i].at = "bump"
    /\ ParStep([par EXCEPT !.hists[WorkerCursor(i)] = @ + 1,
                           !.pc[i] = [j |-> @.j + 1, at |-> "read", ind |-> -1],
                           !.acc = @ \cup {Access(i, "hists", -1, WorkerCursor(i), "r"),
                                           Access(i, "hists", -1, WorkerCursor(i), "w")}])

WorkersDone == \A i \in Workers : par.pc[i].j >= WorkerEnd(i)

\* the par_for has joined: step 6 and the return
CommitSizes ==
    /\ par.phase = "scatter"
    /\ WorkersDone
    /\ LET r == update_buckets_commit(par.s0, par.su, par.A)
       IN  /\ SetSelf(r.st)
           /\ ret' = [op |-> "update_buckets", inserted |-> r.ret]
    /\ par' = [par EXCEPT !.phase = "done"]
    /\ UNCHANGED <<order, total_buckets, ndebug, D, last_emit>>

NextPar ==
    \/ par.phase = "idle" /\ \E f \in ParBatches : BeginScatter(f)
    \/ \E i \in Workers : SkipItem(i)
    \/ \E i \in Workers : ReadCursor(i)
    \/ \E i \in Workers : InsertItem(i)
    \/ \E i \in Workers : BumpCursor(i)
    \/ CommitSizes

SpecPar == InitPar /\ [][NextPar]_vars

\* ------------------------------------------------------------ properties
\* next_bucket has just returned, and not the terminal bucket
Emitted == ret.op = "next_bucket" /\ ret.identifiers # <<>>

\* the buckets next_bucket returns from s on, D left alone, up to the terminal
\* bucket; an abort ends the sequence with the number -1
RECURSIVE Drain(_)
Drain(s) ==
    LET r == next_bucket(s)
    IN  IF r.st.status = "aborted"
        THEN <<[id |-> -1, identifiers |-> <<>>]>>
        ELSE IF r.ret.identifiers = <<>>
             THEN <<>>
             ELSE <<r.ret>> \o Drain(r.st)

RECURSIVE Flatten(_)
Flatten(q) == IF q = <<>> THEN <<>> ELSE Head(q).identifiers \o Flatten(Tail(q))

CountIn(q, i) == Cardinality({x \in DOMAIN q : q[x] = i})

InitialRange == initial_cur_range(order, open_buckets, D)

\* C1 (coverage): right after construction with every D(i) non-null, the
\* next_bucket calls up to the terminal bucket emit every identifier exactly
\* once, D being left alone.
C1_Coverage ==
    (ret.op = "make_buckets" /\ \A i \in Ids : D[i] # NULL_BKT)
        => \A i \in Ids : CountIn(Flatten(Drain(Self)), i) = 1

\* a construction whose identifiers lie in different ranges: the second is
\* emitted after an unpack
C1_Witness ==
    /\ ret.op = "make_buckets"
    /\ \A i \in Ids : D[i] # NULL_BKT
    /\ Len(bkts[open_buckets]) > 0
    /\ Len(Drain(Self)) = 2

Before(a, b) == IF order = "increasing" THEN a < b ELSE a > b

\* C2 as claimed (strict monotonic order): every non-empty bucket next_bucket
\* returns has a number strictly after the last one returned.
C2_StrictOrder ==
    [][(ret'.op = "next_bucket" /\ ret'.identifiers # <<>> /\ last_emit # -1)
          => Before(last_emit, ret'.id)]_vars

\* C2 as amended (monotonic order): every non-empty bucket next_bucket returns
\* has the number of the last one returned or a number after it.
C2_MonotonicOrder ==
    [][(ret'.op = "next_bucket" /\ ret'.identifiers # <<>> /\ last_emit # -1)
          => (last_emit = ret'.id \/ Before(last_emit, ret'.id))]_vars

\* bucket last_emit was returned, and update_buckets has put an identifier of
\* that bucket back into the current slot
C2_Witness ==
    /\ ret.op = "update_buckets"
    /\ ret.inserted = 1
    /\ last_emit = get_cur_bucket_num(Self)
    /\ \E x \in DOMAIN bkts[cur_bkt] : D[bkts[cur_bkt][x]] = last_emit

\* C3 (bucket correctness): every identifier of a returned non-empty bucket
\* has D(i) equal to the returned number, which is the number of the current
\* slot.
C3_BucketCorrect ==
    Emitted =>
        /\ \A x \in DOMAIN ret.identifiers : D[ret.identifiers[x]] = ret.id
        /\ ret.id = IF order = "increasing"
                    THEN cur_range * open_buckets + cur_bkt
                    ELSE cur_range * open_buckets - cur_bkt - 1

\* a returned bucket some stale entries were filtered out of
C3_Witness ==
    /\ Emitted
    /\ Len(ret.identifiers) < ret.num_filtered
    /\ order = "decreasing"

\* C4 as claimed (exhaustion signal): number NULL_BKT is returned only with
\* num_elms = 0 and an empty set, and every other number with a non-empty set.
C4_ExhaustionSignal ==
    ret.op = "next_bucket" =>
        /\ ret.id = NULL_BKT => (num_elms = 0 /\ ret.identifiers = <<>>)
        /\ ret.id # NULL_BKT => ret.identifiers # <<>>

\* C5 (seeding): after construction num_elms counts the identifiers with a
\* non-null D, each of them is once in slot to_range(D(i)) and in no other
\* slot, and the others are in no slot.
C5_Seeding ==
    ret.op = "make_buckets" =>
        /\ cur_range = InitialRange
        /\ num_elms = Cardinality({i \in Ids : D[i] # NULL_BKT})
        /\ \A i \in Ids, b \in 0 .. open_buckets :
               CountIn(bkts[b], i) =
                   IF D[i] # NULL_BKT /\ b = to_range(Self, D[i]) THEN 1 ELSE 0

\* a construction with one null identifier, which is left out
C5_Witness ==
    /\ ret.op = "make_buckets"
    /\ \E i \in Ids : D[i] = NULL_BKT
    /\ num_elms = N - 1

\* C6 as claimed (emit accounting): a call that returns a non-empty bucket
\* lowers num_elms by exactly the returned num_filtered.
C6_ExactAccounting ==
    [][(ret'.op = "next_bucket" /\ ret'.identifiers # <<>>)
          => num_elms' = num_elms - ret'.num_filtered]_vars

\* C6 as amended: such a call lowers num_elms by at least num_filtered, which
\* is no less than the size of the returned set; by exactly num_filtered, the
\* size of the slot, when the call returns the slot cur_bkt pointed at without
\* moving on.
C6_Accounting ==
    [][(ret'.op = "next_bucket" /\ ret'.identifiers # <<>>)
          => /\ ret'.num_filtered >= Len(ret'.identifiers)
             /\ num_elms - num_elms' >= ret'.num_filtered
             /\ (cur_bkt' = cur_bkt /\ cur_range' = cur_range)
                    => /\ num_elms - num_elms' = ret'.num_filtered
                       /\ ret'.num_filtered = Len(bkts[cur_bkt])]_vars

\* a returned bucket of two entries, one of them stale
C6_Witness ==
    /\ Emitted
    /\ ret.num_filtered = 2
    /\ Len(ret.identifiers) = 1

\* C7 as claimed (get_bucket): to_range(next) when it differs from
\* to_range(prev) or equals cur_bkt, NULL_BKT otherwise.
C7_GetBucketClaimed ==
    \A prev \in BktVals, next \in BktVals :
        get_bucket(Self, prev, next) =
            IF to_range(Self, next) # to_range(Self, prev)
               \/ to_range(Self, next) = cur_bkt
            THEN to_range(Self, next)
            ELSE NULL_BKT

\* C7 as amended: to_range(next) when it differs from to_range(prev), equals
\* cur_bkt, or prev is NULL_BKT; NULL_BKT otherwise.
C7_GetBucket ==
    \A prev \in BktVals, next \in BktVals :
        get_bucket(Self, prev, next) =
            IF to_range(Self, next) # to_range(Self, prev)
               \/ to_range(Self, next) = cur_bkt
               \/ prev = NULL_BKT
            THEN to_range(Self, next)
            ELSE NULL_BKT

\* next_bucket has returned bucket b, and get_bucket(b, b) gives the current
\* slot, which is what the clause on cur_bkt is for
C7_Witness ==
    /\ Emitted
    /\ get_bucket(Self, ret.id, ret.id) = cur_bkt

\* C10 as claimed (null-bucket identifiers): no returned set holds an
\* identifier whose D(i) is NULL_BKT.
C10_NullNeverEmitted ==
    ret.op = "next_bucket" =>
        \A x \in DOMAIN ret.identifiers : D[ret.identifiers[x]] # NULL_BKT


\* the entries of batch f that go to slot b: they exist and carry b
EntriesFor(f, b) == {x \in DOMAIN f : f[x].exists /\ f[x].b = b}

NonNullEntries(f) == UNION {EntriesFor(f, b) : b \in Slots}

\* C8 (update_buckets result): for every batch f, update_buckets(f, k)
\* returns the number of entries that exist and carry a slot, num_elms grows by
\* that number, and each slot keeps what it held and grows by the identifiers
\* of the entries that carry it; the other entries change nothing.
C8_UpdateResult ==
    \A f \in RawBatches :
        LET r == update_buckets(Self, f)
        IN  /\ r.ret = Cardinality(NonNullEntries(f))
            /\ r.st.num_elms = num_elms + Cardinality(NonNullEntries(f))
            /\ \A b \in Slots :
                  /\ Len(r.st.bkts[b]) = Len(bkts[b]) + Cardinality(EntriesFor(f, b))
                  /\ SubSeq(r.st.bkts[b], 1, Len(bkts[b])) = bkts[b]
                  /\ \A i \in Ids :
                        CountIn(r.st.bkts[b], i) =
                            CountIn(bkts[b], i)
                            + Cardinality({x \in EntriesFor(f, b) : f[x].v = i})

\* update_buckets has put one identifier into a slot that held one already
C8_Witness ==
    /\ ret.op = "update_buckets"
    /\ ret.inserted = 1
    /\ \E b \in Slots : Len(bkts[b]) = 2

\* the numbers and the members of the buckets next_bucket returns from s on
Emission(s) ==
    LET q == Drain(s)
    IN  [x \in DOMAIN q |-> [id |-> q[x].id, members |-> Range(q[x].identifiers)]]

\* the buckets returned after the call update_buckets(f, Len(f)) in this state
EmissionAfter(f) == Emission(update_buckets(Self, f).st)

StoredBefore(f) ==
    \A x \in DOMAIN f : TakesEntry(f[x]) => CountIn(bkts[f[x].b], f[x].v) > 0

C11_InvalidConfigAborts ==
    (ret.op = "make_buckets" /\ total_buckets < 2)
        => (status = "aborted" /\ num_elms = 0 /\ bkts = <<>>)

\* C12 as claimed (unpack precondition): whenever unpack runs, the size m of
\* the overflow slot equals num_elms, so the assertion of unpack never fails.
C12_UnpackPrecondition == status # "aborted"

\* C13 (size invariant): after construction and after every completed
\* next_bucket or update_buckets call, num_elms is the sum of the sizes of all
\* total_buckets slots and cur_bkt is an open slot.
C13_SizeInvariant ==
    (status = "ok" /\ ret.op \in {"make_buckets", "next_bucket", "update_buckets"})
        => /\ num_elms = SumSizes(bkts, total_buckets - 1)
           /\ cur_bkt \in 0 .. (open_buckets - 1)

\* next_bucket has unpacked twice or more and returned a bucket, with an
\* identifier left in the structure
C13_Witness ==
    /\ Emitted
    /\ order = "increasing"
    /\ cur_range >= 2
    /\ num_elms > 0

\* the slots identifier i is physically in
SlotsOf(i) == {b \in 0 .. (total_buckets - 1) : CountIn(bkts[b], i) > 0}

\* no identifier is in more than one slot
Disjoint == \A i \in Ids : Cardinality(SlotsOf(i)) <= 1

\* C14 as claimed (slot disjointness): between operations no identifier is
\* in more than one slot.
C14_SlotDisjoint == Disjoint

\* C14 as amended: construction puts no identifier into two slots, and
\* next_bucket (unpack included) and a change of D never put an identifier
\* into a second slot; only update_buckets does, which appends to the new slot
\* and leaves the old entry where it is.
C14_DisjointUnlessMoved ==
    [][/\ ret.op = "make_buckets" => Disjoint
       /\ (ret'.op \in {"next_bucket", "set_d"} /\ Disjoint) => Disjoint']_vars

\* after an unpack next_bucket has returned one identifier and the other is
\* still stored, each of them in one slot
C14_Witness ==
    /\ Emitted
    /\ ret.num_filtered = 1
    /\ cur_range # InitialRange
    /\ num_elms = 1
    /\ Disjoint
    /\ \A i \in Ids : D[i] # NULL_BKT

\* bucket number last_emit is the one next_bucket returned last and cur_bkt
\* still points at its slot
JustReturned ==
    /\ status = "ok"
    /\ last_emit # -1
    /\ last_emit = get_cur_bucket_num(Self)

\* C15 (re-insertion into the current bucket): when bucket b was returned
\* last and D(i) = b, get_bucket(prev, b) is slot cur_bkt for every prev,
\* and after update_buckets with (i, that slot) the next next_bucket returns
\* number b again with i in its set.
C15_Reinsertion ==
    \A i \in Ids, prev \in BktVals :
        (JustReturned /\ D[i] = last_emit)
            => LET slot == get_bucket(Self, prev, last_emit)
                   u == update_buckets(Self, <<Some(i, slot)>>)
                   r == next_bucket(u.st)
               IN  /\ slot = cur_bkt
                   /\ u.ret = 1
                   /\ r.ret.id = last_emit
                   /\ i \in Range(r.ret.identifiers)

\* in DECREASING order bucket last_emit was returned, the consumer has moved
\* an identifier into it from another bucket and update_buckets has stored it
\* in the drained slot: the next next_bucket returns that bucket again
C15_Witness ==
    /\ JustReturned
    /\ order = "decreasing"
    /\ ret.op = "update_buckets"
    /\ ret.inserted = 1
    /\ Len(bkts[cur_bkt]) = 1
    /\ D[bkts[cur_bkt][1]] = last_emit
    /\ next_bucket(Self).ret.id = last_emit

\* the first bucket number of the order among the non-null D(i)
Extreme ==
    CHOOSE b \in {D[i] : i \in NonNullIds} :
        \A i \in NonNullIds : D[i] = b \/ Before(b, D[i])

\* C16 (initial window): after a construction with a non-null identifier the
\* window holds the smallest (INCREASING) or largest (DECREASING) non-null
\* bucket number, its open slot is not empty, and the first next_bucket
\* returns that bucket with all its identifiers and without an unpack.
C16_InitialWindow ==
    (ret.op = "make_buckets" /\ NonNullIds # {})
        => LET r == next_bucket(Self)
           IN  /\ to_range(Self, Extreme) \in 0 .. (open_buckets - 1)
               /\ bkts[to_range(Self, Extreme)] # <<>>
               /\ r.ret.id = Extreme
               /\ Range(r.ret.identifiers) = {i \in Ids : D[i] = Extreme}
               /\ r.st.cur_range = cur_range

\* a DECREASING construction whose largest bucket number is a multiple of
\* open_buckets, with another identifier in the overflow slot
C16_Witness ==
    /\ ret.op = "make_buckets"
    /\ order = "decreasing"
    /\ open_buckets = 2
    /\ Extreme = 2
    /\ Len(bkts[open_buckets]) = 1

\* the cells of slot b that worker i has written
Written(b, i) == {a.x : a \in {c \in par.acc : c.arr = "A" /\ c.kind = "w" /\ c.slot = b /\ c.w = i}}

\* the cells step 3 reserved in slot b
Reserved(b) == par.su.sizes[b] .. (par.su.sizes[b] + par.su.num_inc[b] - 1)

IsRange(S) == \A x, y \in S : \A z \in x .. y : z \in S

C19_NoDuplicateInSet ==
    Emitted => \A i \in Ids : CountIn(ret.identifiers, i) <= 1

\* the identifiers stored in some slot
Stored == {i \in Ids : SlotsOf(i) # {}}

\* how many buckets the cursor is away from the nearest stored identifier
Distance ==
    LET nearest == CHOOSE b \in {D[i] : i \in Stored} :
                       \A i \in Stored : D[i] = b \/ Before(b, D[i])
    IN  IF order = "increasing"
        THEN nearest - get_cur_bucket_num(Self)
        ELSE get_cur_bucket_num(Self) - nearest

Terminal == ret.op = "next_bucket" /\ ret.id = NULL_BKT

\* C20 (termination): with D unchanged and no update_buckets, every iteration
\* of the loop of next_bucket, unpacks included, brings the cursor one bucket
\* nearer to the nearest stored identifier and never past it; every call that
\* returns a bucket returns a non-empty one and lowers num_elms; NULL_BKT is
\* returned only with num_elms = 0; and a call made with num_elms = 0 returns
\* NULL_BKT and leaves cur_range, cur_bkt and the slots as they are.
C20_Termination ==
    [][/\ ret'.op # "abort"
       /\ ret'.op = "_next_bucket" =>
             (Stored' = Stored /\ Distance' >= 0 /\ Distance' = Distance - 1)
       /\ (ret'.op = "next_bucket" /\ ret'.id # NULL_BKT) =>
             (ret'.identifiers # <<>> /\ num_elms' < num_elms /\ num_elms' >= 0)
       /\ (ret'.op = "next_bucket" /\ ret'.id = NULL_BKT) => num_elms' = 0
       /\ (ret'.op = "next_bucket" /\ num_elms = 0) =>
             (ret'.id = NULL_BKT /\ ret'.identifiers = <<>> /\ bkts' = bkts
              /\ cur_range' = cur_range /\ cur_bkt' = cur_bkt /\ num_elms' = 0)
      ]_vars

\* next_bucket has returned NULL_BKT, after the last identifier was reached
\* from the overflow slot through two unpacks in a row
C20_Witness ==
    /\ Terminal
    /\ order = "increasing"
    /\ open_buckets = 1
    /\ D = [i \in Ids |-> IF i = 0 THEN 0 ELSE 2]
    /\ last_emit = 2
    /\ cur_range = 2

\* C20, the same as a property of the fair runs: NULL_BKT is returned after
\* finitely many steps, and from then on to every call
C20_EventuallyTerminal == <>[](num_elms = 0 /\ (InLoop \/ Terminal))

====
